---- MODULE Spec2Model ----
(***************************************************************************)
(* CORS preflight middleware of teach-la-go-backend (middleware/cors.go).  *)
(*                                                                         *)
(* A Go string is modelled as the sequence of its Unicode code points, so  *)
(* that ==, strings.ToUpper, strings.Split and the integer-to-string       *)
(* conversion are computed the way Go computes them.  "POST" is            *)
(* <<80, 79, 83, 84>>, the empty string is <<>>.                           *)
(***************************************************************************)
EXTENDS Integers, Sequences, FiniteSets, TLC

VARIABLES
    cfg,         \* the CORSConfig captured by the handler WithCORSConfig returns
    pc,          \* sequential harness: "idle" | "received" | "done"
    req,         \* the request being served (NoRequest when idle)
    resp,        \* the http.ResponseWriter state of that request
    innerCalls,  \* number of calls of next.ServeHTTP made for that request
    forwarded,   \* the request next.ServeHTTP was handed (NoRequest if none)
    innerOut,    \* what the inner handler wrote when it was called
    inflight,    \* concurrent harness: one record per in-flight connection
    call,        \* matcher harness: the matcher call made and its result
    mock,        \* the MockDB: d.db, collection path -> id -> stored value
    stored,      \* per collection and id, what was last stored and not deleted since
    last         \* the last MockDB operation and what it returned

mockVars == <<mock, stored, last>>

vars == <<cfg, pc, req, resp, innerCalls, forwarded, innerOut, inflight, call,
          mock, stored, last>>

----------------------------------------------------------------------------
(* Bounds *)

\* longest Access-Control-Request-Headers value drawn from HeaderAlphabet
MaxLen == 4
\* longest allow-list of a config drawn for the matcher harness
MaxAllowed == 2
\* longest sequence of header names handed to HeadersSupported directly
MaxNames == 2
\* number of connections served concurrently
NumConns == 2

----------------------------------------------------------------------------
(* Strings *)

StrEmpty == <<>>
StrA == <<97>>                 \* "a"
StrUpperA == <<65>>            \* "A"
StrB == <<98>>                 \* "b"
StrStar == <<42>>              \* "*"
StrS == <<115>>                \* "s"
StrUpperS == <<83>>            \* "S"
StrLongS == <<383>>            \* U+017F LATIN SMALL LETTER LONG S (non-ASCII)
StrTrue == <<116, 114, 117, 101>>                     \* "true"
StrCommaSpace == <<44, 32>>                           \* ", "
StrContentType == <<67, 111, 110, 116, 101, 110, 116, 45, 84, 121, 112, 101>>
StrContentTypeLower == <<99, 111, 110, 116, 101, 110, 116, 45, 116, 121, 112, 101>>
MethodConnect == <<67, 79, 78, 78, 69, 67, 84>>       \* "CONNECT"
MethodDelete == <<68, 69, 76, 69, 84, 69>>            \* "DELETE"
MethodGet == <<71, 69, 84>>                           \* "GET"
MethodHead == <<72, 69, 65, 68>>                      \* "HEAD"
MethodOptions == <<79, 80, 84, 73, 79, 78, 83>>       \* "OPTIONS"
MethodPatch == <<80, 65, 84, 67, 72>>                 \* "PATCH"
MethodPost == <<80, 79, 83, 84>>                      \* "POST"
MethodPut == <<80, 85, 84>>                           \* "PUT"
MethodTrace == <<84, 82, 65, 67, 69>>                 \* "TRACE"
StrPostLower == <<112, 111, 115, 116>>                \* "post"

Range(f) == {f[i] : i \in DOMAIN f}

\* all sequences over S of length at most n
SeqsUpTo(S, n) == UNION {[1..k -> S] : k \in 0..n}

\* unicode.ToUpper on one code point: a-z map to A-Z; of the non-ASCII code
\* points only those the model draws are tabulated (U+017F -> 'S',
\* U+0131 -> 'I'); every other code point the model uses maps to itself.
ToUpperRune(r) ==
    IF r >= 97 /\ r <= 122 THEN r - 32
    ELSE IF r = 383 THEN 83
    ELSE IF r = 305 THEN 73
    ELSE r

\* strings.ToUpper: unicode.ToUpper mapped over the runes of s
ToUpper(s) == [i \in 1..Len(s) |-> ToUpperRune(s[i])]

\* strings.Index(s, sep) as a 1-based position, 0 when sep does not occur
Index(s, sep) ==
    LET hits == {i \in 1..(Len(s) - Len(sep) + 1) :
                    SubSeq(s, i, i + Len(sep) - 1) = sep}
    IN IF hits = {} THEN 0 ELSE CHOOSE i \in hits : \A j \in hits : i <= j

\* strings.Split(s, sep) for a non-empty sep: cut at each leftmost
\* non-overlapping occurrence; a string without sep is returned as the
\* one-element list <<s>> (so Split("", ", ") is <<"">>, not <<>>).
RECURSIVE Split(_, _)
Split(s, sep) ==
    LET i == Index(s, sep)
    IN IF i = 0 THEN <<s>>
       ELSE <<SubSeq(s, 1, i - 1)>> \o Split(SubSeq(s, i + Len(sep), Len(s)), sep)

\* string(x) for an unsigned integer x: the UTF-8 string of the single code
\* point x, or of U+FFFD when x is not a valid code point.
StringOfUint32(x) ==
    IF x <= 1114111 /\ ~(x >= 55296 /\ x <= 57343) THEN <<x>> ELSE <<65533>>

----------------------------------------------------------------------------
(* CORSConfig and its matchers *)

CORSConfigOf(origins, methods, headers, creds, maxAge) ==
    [AllowedOrigins |-> origins, AllowedMethods |-> methods,
     AllowedHeaders |-> headers, SupportsCredentials |-> creds,
     MaxAge |-> maxAge]

OriginSupportedNoEmptyCheck(c, requestOrigin) ==
    \E i \in 1..Len(c.AllowedOrigins) : requestOrigin = c.AllowedOrigins[i]

OriginSupportedWildcard(c, requestOrigin) ==
    /\ requestOrigin # StrEmpty
    /\ \E i \in 1..Len(c.AllowedOrigins) :
          \/ requestOrigin = c.AllowedOrigins[i]
          \/ c.AllowedOrigins[i] = StrStar

OriginSupported(c, requestOrigin) ==
    IF requestOrigin = StrEmpty THEN FALSE
    ELSE \E i \in 1..Len(c.AllowedOrigins) : requestOrigin = c.AllowedOrigins[i]

MethodSupported(c, requestMethod) ==
    IF requestMethod = StrEmpty THEN FALSE
    ELSE \E i \in 1..Len(c.AllowedMethods) : requestMethod = c.AllowedMethods[i]

HeadersSupported(c, requestHeaderFieldNames) ==
    IF Len(requestHeaderFieldNames) = 0 THEN TRUE
    ELSE \A i \in 1..Len(requestHeaderFieldNames) :
            \E j \in 1..Len(c.AllowedHeaders) :
                ToUpper(requestHeaderFieldNames[i]) = ToUpper(c.AllowedHeaders[j])

----------------------------------------------------------------------------
(* Requests and responses *)

StatusOK == 200
StatusBadRequest == 400
StatusNotFound == 404

ReqHeaderNames ==
    {"Origin", "Access-Control-Request-Method", "Access-Control-Request-Headers"}

RespHeaderNames ==
    {"Access-Control-Allow-Origin", "Access-Control-Allow-Credentials",
     "Access-Control-Max-Age"}

\* a request: its method and, per header, the list of its values (<<>>: absent)
RequestOf(method, origin, acrm, acrh) ==
    [Method |-> method,
     Header |-> [h \in ReqHeaderNames |->
                    IF h = "Origin" THEN origin
                    ELSE IF h = "Access-Control-Request-Method" THEN acrm
                    ELSE acrh]]

NoRequest == [Method |-> StrEmpty, Header |-> [h \in ReqHeaderNames |-> <<>>]]

\* http.Header.Get: the first value of the header, "" when there is none
HeaderGet(header, key) == IF header[key] = <<>> THEN StrEmpty ELSE header[key][1]

\* a ResponseWriter nothing was written to; status 0: WriteHeader not called
FreshResponse == [status |-> 0, header |-> [h \in RespHeaderNames |-> <<>>]]

\* w.Header().Set(key, value)
HeaderSet(w, key, value) == [w EXCEPT !.header[key] = <<value>>]

\* w.WriteHeader(code): only the first call sets the status
WriteHeader(w, code) == IF w.status = 0 THEN [w EXCEPT !.status = code] ELSE w

\* what an inner handler may write: a status and possibly its own header
InnerResponses ==
    {[status |-> StatusOK, header |-> [h \in RespHeaderNames |-> <<>>]],
     [status |-> StatusNotFound,
      header |-> [h \in RespHeaderNames |->
                    IF h = "Access-Control-Allow-Origin" THEN <<StrStar>> ELSE <<>>]]}

NoInnerResponse == FreshResponse

\* next.ServeHTTP(w, r) for an inner handler that writes `out`
NextServeHTTP(w, out) ==
    WriteHeader(
        [w EXCEPT !.header = [h \in RespHeaderNames |->
                                IF out.header[h] # <<>> THEN out.header[h]
                                ELSE w.header[h]]],
        out.status)

----------------------------------------------------------------------------
(* WithCORSConfig *)

\* the request header fields the preflight branch acquires
PreflightFields(r) ==
    [origin |-> HeaderGet(r.Header, "Origin"),
     method |-> HeaderGet(r.Header, "Access-Control-Request-Method"),
     headerFieldNames |->
        Split(HeaderGet(r.Header, "Access-Control-Request-Headers"), StrCommaSpace)]

PreflightAllowedIgnoringMethod(c, f) ==
    /\ OriginSupported(c, f.origin)
    /\ HeadersSupported(c, f.headerFieldNames)

\* the negation of the rejection condition
PreflightAllowed(c, f) ==
    ~(\/ ~OriginSupported(c, f.origin)
      \/ ~MethodSupported(c, f.method)
      \/ ~HeadersSupported(c, f.headerFieldNames))

SetAcceptHeadersFirstAllowedOrigin(c, w, origin) ==
    LET w1 == IF c.SupportsCredentials
              THEN HeaderSet(w, "Access-Control-Allow-Credentials", StrTrue) ELSE w
        w2 == HeaderSet(w1, "Access-Control-Allow-Origin", c.AllowedOrigins[1])
    IN IF c.MaxAge # 0
       THEN HeaderSet(w2, "Access-Control-Max-Age", StringOfUint32(c.MaxAge))
       ELSE w2

\* the headers of an accepted preflight
SetAcceptHeaders(c, w, origin) ==
    LET w1 == IF c.SupportsCredentials
              THEN HeaderSet(w, "Access-Control-Allow-Credentials", StrTrue) ELSE w
        w2 == HeaderSet(w1, "Access-Control-Allow-Origin", origin)
    IN IF c.MaxAge # 0
       THEN HeaderSet(w2, "Access-Control-Max-Age", StringOfUint32(c.MaxAge))
       ELSE w2

\* the preflight branch: reject with 400, or set the headers and answer 200
ServePreflight(c, w, r) ==
    LET f == PreflightFields(r)
    IN IF ~PreflightAllowed(c, f)
       THEN WriteHeader(w, StatusBadRequest)
       ELSE WriteHeader(SetAcceptHeaders(c, w, f.origin), StatusOK)

Served(w, calls, fwd, out) ==
    [resp |-> w, innerCalls |-> calls, forwarded |-> fwd, innerOut |-> out]

WithCORSConfigFallThrough(c, w, r, out) ==
    IF r.Method = MethodOptions /\ PreflightAllowed(c, PreflightFields(r))
    THEN Served(ServePreflight(c, w, r), 0, NoRequest, NoInnerResponse)
    ELSE Served(NextServeHTTP(IF r.Method = MethodOptions
                              THEN ServePreflight(c, w, r) ELSE w, out),
                1, r, out)

WithCORSConfigHeadersOnActual(c, w, r, out) ==
    IF r.Method = MethodOptions
    THEN Served(ServePreflight(c, w, r), 0, NoRequest, NoInnerResponse)
    ELSE Served(NextServeHTTP(
                    HeaderSet(w, "Access-Control-Allow-Credentials", StrTrue), out),
                1, r, out)

\* the handler WithCORSConfig(next, c) returns, applied to (w, r); `out` is
\* what next writes if it is called
WithCORSConfig(c, w, r, out) ==
    IF r.Method = MethodOptions
    THEN Served(ServePreflight(c, w, r), 0, NoRequest, NoInnerResponse)
    ELSE Served(NextServeHTTP(w, out), 1, r, out)

\* the configuration WithCORS wraps WithCORSConfig with
DefaultCfg ==
    CORSConfigOf(<<StrStar>>,
                 <<MethodConnect, MethodDelete, MethodGet, MethodHead, MethodOptions,
                   MethodPatch, MethodPost, MethodPut, MethodTrace>>,
                 <<StrContentType>>, FALSE, 0)

----------------------------------------------------------------------------
(* Inputs *)

\* runes of the Access-Control-Request-Headers values drawn: 's', ',', ' '
HeaderAlphabet == {115, 44, 32}

\* a header is absent (<<>>) or carries one value
Present(values) == {<<>>} \cup {<<v>> : v \in values}

\* preflight probes: every combination of the three request headers
Preflights ==
    {RequestOf(MethodOptions, o, rm, rh) :
        o \in Present({StrA, StrUpperA, StrB}),
        rm \in Present({MethodPost, StrPostLower}),
        rh \in Present(SeqsUpTo(HeaderAlphabet, MaxLen))}

\* actual requests, with and without the headers a preflight carries
ActualRequests ==
    {RequestOf(m, o, rm, rh) :
        m \in {MethodGet, MethodPost},
        o \in Present({StrA, StrB}),
        rm \in Present({MethodPost}),
        rh \in Present({StrS})}

Requests == Preflights \cup ActualRequests

Configs ==
    {CORSConfigOf(o, <<MethodPost>>, h, cr, age) :
        o \in {<<StrA, StrEmpty>>, <<StrB, StrA>>},
        h \in {<<>>, <<StrUpperS>>, <<StrUpperS, StrEmpty>>},
        cr \in BOOLEAN,
        age \in {0, 600}}

\* the standard HTTP method tokens of net/http
NineStandardMethods ==
    {MethodConnect, MethodDelete, MethodGet, MethodHead, MethodOptions,
     MethodPatch, MethodPost, MethodPut, MethodTrace}

\* requests probing the default policy of WithCORS
DefaultRequests ==
    {RequestOf(m, o, rm, rh) :
        m \in {MethodOptions, MethodGet},
        o \in Present({StrStar, StrA, StrEmpty}),
        rm \in Present(NineStandardMethods \cup {StrPostLower, StrEmpty}),
        rh \in Present({StrContentType, StrContentTypeLower, StrUpperS, StrEmpty,
                        StrContentType \o StrCommaSpace \o StrContentType,
                        StrContentType \o <<44>> \o StrContentType,
                        StrContentType \o StrCommaSpace \o StrUpperS,
                        StrContentType \o StrCommaSpace})}

----------------------------------------------------------------------------
(* MockDB (db/mock.go) *)

\* the collection paths; the three constants are declared outside db/mock.go
usersPath == "users"
programsPath == "programs"
classesPath == "classes"

Paths == {usersPath, programsPath, classesPath}

\* ids and field contents the operations are called with
MockIds == {"", "id1"}
MockData == {"x", "y"}

\* the nil interface value a map yields for a key it does not hold
Nil == [type |-> "nil"]

Programs == [type : {"Program"}, UID : MockIds, data : MockData]
Classes == [type : {"Class"}, CID : MockIds, data : MockData]
Users == [type : {"User"}, UID : MockIds, data : MockData]

\* the zero values Program{}, Class{}, User{}
ZeroProgram == [type |-> "Program", UID |-> "", data |-> ""]
ZeroClass == [type |-> "Class", CID |-> "", data |-> ""]
ZeroUser == [type |-> "User", UID |-> "", data |-> ""]

\* d.db[path][id]: the value stored, nil when the map has no such key
MapGet(d, path, id) == IF id \in DOMAIN d[path] THEN d[path][id] ELSE Nil

\* d.db[path][id] = v
MapSet(d, path, id, v) ==
    [d EXCEPT ![path] = [k \in DOMAIN @ \cup {id} |-> IF k = id THEN v ELSE @[k]]]

\* delete(d.db[path], id)
MapDelete(d, path, id) ==
    [d EXCEPT ![path] = [k \in DOMAIN @ \ {id} |-> @[k]]]

\* a (value, error) result; err is TRUE for a non-nil error
Result(v, err) == [val |-> v, err |-> err]

\* the database after a store or delete, and the error returned
Done(d, err) == [db |-> d, err |-> err]

\* OpenMock: the three collections, each an empty map
OpenMock == [p \in Paths |-> [k \in {} |-> Nil]]

LoadProgram(d, pid) ==
    LET p == MapGet(d, programsPath, pid)
    IN IF p.type # "Program" THEN Result(ZeroProgram, TRUE) ELSE Result(p, FALSE)

StoreProgram(d, p) == Done(MapSet(d, programsPath, p.UID, p), FALSE)

RemoveProgramFromUsers(d, pid) == Done(MapDelete(d, usersPath, pid), FALSE)

RemoveProgram(d, pid) == Done(MapDelete(d, programsPath, pid), FALSE)

LoadClass(d, cid) ==
    LET c == MapGet(d, classesPath, cid)
    IN IF c.type # "Class" THEN Result(ZeroClass, TRUE) ELSE Result(c, FALSE)

StoreClass(d, c) == Done(MapSet(d, classesPath, c.CID, c), FALSE)

DeleteClass(d, cid) == Done(MapDelete(d, classesPath, cid), FALSE)

LoadUser(d, uid) ==
    LET u == MapGet(d, usersPath, uid)
    IN IF u.type # "User" THEN Result(ZeroUser, TRUE) ELSE Result(u, FALSE)

StoreUser(d, u) == Done(MapSet(d, usersPath, u.UID, u), FALSE)

DeleteUser(d, uid) == Done(MapDelete(d, usersPath, uid), FALSE)

NoOp == [op |-> "none", path |-> "", id |-> "", val |-> Nil, err |-> FALSE]

\* a MockDB fresh from OpenMock, nothing stored, no operation made
MockOpened ==
    /\ mock = OpenMock
    /\ stored = [p \in Paths |-> [id \in MockIds |-> Nil]]
    /\ last = NoOp

----------------------------------------------------------------------------
(* Serving one request at a time *)

NoCall == [fn |-> "none", arg |-> <<>>, ret |-> FALSE]

Idle ==
    /\ pc = "idle"
    /\ req = NoRequest
    /\ resp = FreshResponse
    /\ innerCalls = 0
    /\ forwarded = NoRequest
    /\ innerOut = NoInnerResponse

Conns == 1..NumConns

NoFields == [origin |-> StrEmpty, method |-> StrEmpty, headerFieldNames |-> <<>>]

IdleConn == [pc |-> "idle", req |-> NoRequest, w |-> FreshResponse, f |-> NoFields]

\* no connection of the concurrent harness is open
NoConns == [i \in Conns |-> IdleConn]

Init ==
    /\ cfg \in Configs
    /\ Idle
    /\ inflight = NoConns
    /\ call = NoCall
    /\ MockOpened

InitDefault ==
    /\ cfg = DefaultCfg
    /\ Idle
    /\ inflight = NoConns
    /\ call = NoCall
    /\ MockOpened

\* a request arrives with a response writer nothing was written to
Arrive(r) ==
    /\ pc = "idle"
    /\ pc' = "received"
    /\ req' = r
    /\ UNCHANGED <<cfg, resp, innerCalls, forwarded, innerOut, inflight, call, mockVars>>

Receive == \E r \in Requests : Arrive(r)

ReceiveDefault == \E r \in DefaultRequests : Arrive(r)

\* the handler runs to completion on the request
Serve ==
    /\ pc = "received"
    /\ \E out \in InnerResponses :
          LET s == WithCORSConfig(cfg, resp, req, out)
          IN /\ resp' = s.resp
             /\ innerCalls' = innerCalls + s.innerCalls
             /\ forwarded' = s.forwarded
             /\ innerOut' = s.innerOut
    /\ pc' = "done"
    /\ UNCHANGED <<cfg, req, inflight, call, mockVars>>

\* the connection is closed; the next request gets a fresh response writer
Finish ==
    /\ pc = "done"
    /\ pc' = "idle"
    /\ req' = NoRequest
    /\ resp' = FreshResponse
    /\ innerCalls' = 0
    /\ forwarded' = NoRequest
    /\ innerOut' = NoInnerResponse
    /\ UNCHANGED <<cfg, inflight, call, mockVars>>

Next == Receive \/ Serve \/ Finish

Spec == Init /\ [][Next]_vars

NextDefault == ReceiveDefault \/ Serve \/ Finish

SpecDefault == InitDefault /\ [][NextDefault]_vars

----------------------------------------------------------------------------
(* Properties of the handler, one request at a time *)

\* the decimal representation of a natural number
RECURSIVE Itoa(_)
Itoa(n) == IF n < 10 THEN <<48 + n>> ELSE Itoa(n \div 10) \o <<48 + (n % 10)>>

\* ASCII upper-casing of one code point: only a-z change
ToUpperASCIIRune(r) == IF r >= 97 /\ r <= 122 THEN r - 32 ELSE r

\* equality of two strings ignoring ASCII case
EqualFoldASCII(a, b) ==
    /\ Len(a) = Len(b)
    /\ \A i \in 1..Len(a) : ToUpperASCIIRune(a[i]) = ToUpperASCIIRune(b[i])

PreflightDone == pc = "done" /\ req.Method = MethodOptions

ActualDone == pc = "done" /\ req.Method # MethodOptions

ReqOrigin == HeaderGet(req.Header, "Origin")
ReqMethod == HeaderGet(req.Header, "Access-Control-Request-Method")
ReqHeaders == HeaderGet(req.Header, "Access-Control-Request-Headers")
ReqHeaderFieldNames == Split(ReqHeaders, StrCommaSpace)

NoCORSHeaders == \A h \in RespHeaderNames : resp.header[h] = <<>>

AcceptedPreflight ==
    /\ PreflightDone
    /\ OriginSupported(cfg, ReqOrigin)
    /\ MethodSupported(cfg, ReqMethod)
    /\ HeadersSupported(cfg, ReqHeaderFieldNames)

\* C1: a preflight is answered 200 exactly when its Origin, its requested
\* method and its parsed requested headers are all supported; every other
\* preflight is answered 400 with none of the three CORS headers set, so all
\* rejections are the same response.
C1_PreflightGate ==
    PreflightDone =>
        /\ resp.status = StatusOK <=>
              /\ OriginSupported(cfg, ReqOrigin)
              /\ MethodSupported(cfg, ReqMethod)
              /\ HeadersSupported(cfg, ReqHeaderFieldNames)
        /\ resp.status # StatusOK =>
              /\ resp.status = StatusBadRequest
              /\ NoCORSHeaders

\* a preflight rejected for its method alone, its origin and headers supported
C1_Witness ==
    /\ PreflightDone
    /\ resp.status = StatusBadRequest
    /\ NoCORSHeaders
    /\ OriginSupported(cfg, ReqOrigin)
    /\ HeadersSupported(cfg, ReqHeaderFieldNames)
    /\ ~MethodSupported(cfg, ReqMethod)

\* C2: the inner handler is called exactly once for a request that is not
\* OPTIONS and never for an OPTIONS request, accepted or rejected.
C2_InnerCalls ==
    pc = "done" => innerCalls = (IF req.Method = MethodOptions THEN 0 ELSE 1)

\* a rejected preflight that did not reach the inner handler
C2_Witness ==
    /\ PreflightDone
    /\ resp.status = StatusBadRequest
    /\ innerCalls = 0
    /\ forwarded = NoRequest

\* C3: a request that is not OPTIONS reaches the inner handler unchanged and
\* its response is exactly what the inner handler wrote: the middleware adds
\* no status and no CORS header of its own.
C3_ActualUntouched ==
    ActualDone =>
        /\ forwarded = req
        /\ resp.status = innerOut.status
        /\ resp.header = innerOut.header

\* a GET carrying Origin and Access-Control-Request-* headers, answered by the
\* inner handler with no CORS header
C3_Witness ==
    /\ ActualDone
    /\ req.Method = MethodGet
    /\ req.Header["Origin"] # <<>>
    /\ req.Header["Access-Control-Request-Method"] # <<>>
    /\ req.Header["Access-Control-Request-Headers"] # <<>>
    /\ innerCalls = 1
    /\ NoCORSHeaders

\* C4: an accepted preflight is answered 200 with Access-Control-Allow-Origin
\* set to the request's Origin value, and Access-Control-Allow-Credentials is
\* "true" when the config supports credentials and absent when it does not.
C4_AcceptHeaders ==
    AcceptedPreflight =>
        /\ resp.status = StatusOK
        /\ resp.header["Access-Control-Allow-Origin"] = <<ReqOrigin>>
        /\ resp.header["Access-Control-Allow-Credentials"] =
              (IF cfg.SupportsCredentials THEN <<StrTrue>> ELSE <<>>)

\* an accepted credentialed preflight whose origin is not the first entry of
\* the allow-list
C4_Witness ==
    /\ AcceptedPreflight
    /\ cfg.SupportsCredentials
    /\ ReqOrigin # cfg.AllowedOrigins[1]
    /\ resp.header["Access-Control-Allow-Origin"] = <<ReqOrigin>>

\* C5: on an accepted preflight Access-Control-Max-Age is absent when MaxAge
\* is 0 and is the decimal representation of MaxAge otherwise.
C5_MaxAgeDecimal ==
    AcceptedPreflight =>
        resp.header["Access-Control-Max-Age"] =
            (IF cfg.MaxAge = 0 THEN <<>> ELSE <<Itoa(cfg.MaxAge)>>)

\* C6: a preflight without (or with an empty) Access-Control-Request-Headers
\* header is accepted whenever its origin and requested method are supported,
\* whatever AllowedHeaders contains.
C6_NoRequestedHeadersAccepted ==
    (/\ PreflightDone
     /\ ReqHeaders = StrEmpty
     /\ OriginSupported(cfg, ReqOrigin)
     /\ MethodSupported(cfg, ReqMethod))
        => resp.status = StatusOK

----------------------------------------------------------------------------
(* The matchers called directly *)

OriginStrs == {StrEmpty, StrA, StrUpperA}
MethodStrs == {StrEmpty, MethodPost, StrPostLower}
HeaderStrs == {StrEmpty, StrUpperS, StrB}
NameStrs == {StrEmpty, StrS, StrLongS, StrB}

\* configs whose allow-lists are every list of at most MaxAllowed entries
MatcherConfigs ==
    {CORSConfigOf(o, <<MethodPost>>, <<StrUpperS>>, FALSE, 0) :
        o \in SeqsUpTo(OriginStrs, MaxAllowed)}
    \cup {CORSConfigOf(<<StrA>>, m, <<StrUpperS>>, FALSE, 0) :
        m \in SeqsUpTo(MethodStrs, MaxAllowed)}
    \cup {CORSConfigOf(<<StrA>>, <<MethodPost>>, h, FALSE, 0) :
        h \in SeqsUpTo(HeaderStrs, MaxAllowed)}

InitMatcher ==
    /\ cfg \in MatcherConfigs
    /\ Idle
    /\ inflight = NoConns
    /\ call = NoCall
    /\ MockOpened

CallOriginSupported ==
    /\ call = NoCall
    /\ \E o \in OriginStrs \cup {StrB} :
          call' = [fn |-> "OriginSupported", arg |-> o, ret |-> OriginSupported(cfg, o)]
    /\ UNCHANGED <<cfg, pc, req, resp, innerCalls, forwarded, innerOut, inflight, mockVars>>

CallMethodSupported ==
    /\ call = NoCall
    /\ \E m \in MethodStrs \cup {MethodGet} :
          call' = [fn |-> "MethodSupported", arg |-> m, ret |-> MethodSupported(cfg, m)]
    /\ UNCHANGED <<cfg, pc, req, resp, innerCalls, forwarded, innerOut, inflight, mockVars>>

CallHeadersSupported ==
    /\ call = NoCall
    /\ \E names \in SeqsUpTo(NameStrs, MaxNames) :
          call' = [fn |-> "HeadersSupported", arg |-> names,
                   ret |-> HeadersSupported(cfg, names)]
    /\ UNCHANGED <<cfg, pc, req, resp, innerCalls, forwarded, innerOut, inflight, mockVars>>

NextMatcher == CallOriginSupported \/ CallMethodSupported \/ CallHeadersSupported

SpecMatcher == InitMatcher /\ [][NextMatcher]_vars

\* C7: HeadersSupported is true exactly when every name of the sequence
\* equals, ignoring ASCII case, some entry of AllowedHeaders.
C7_HeadersAllMatchASCII ==
    call.fn = "HeadersSupported" =>
        call.ret = (\A i \in 1..Len(call.arg) :
                        \E e \in Range(cfg.AllowedHeaders) :
                            EqualFoldASCII(call.arg[i], e))

\* C8: OriginSupported and MethodSupported are true exactly for a non-empty
\* value that is itself an entry of the allow-list; neither the empty string,
\* even when listed, nor a value differing from every entry in letter case
\* is supported.
C8_ExactNonEmptyMatch ==
    /\ call.fn = "OriginSupported" =>
          call.ret = (call.arg \in Range(cfg.AllowedOrigins) \ {StrEmpty})
    /\ call.fn = "MethodSupported" =>
          call.ret = (call.arg \in Range(cfg.AllowedMethods) \ {StrEmpty})
    /\ call.fn \in {"OriginSupported", "MethodSupported"} /\ call.arg = StrEmpty
          => call.ret = FALSE

\* the empty origin refused by a config that lists the empty string
C8_Witness ==
    /\ call.fn = "OriginSupported"
    /\ call.arg = StrEmpty
    /\ StrEmpty \in Range(cfg.AllowedOrigins)
    /\ call.ret = FALSE

----------------------------------------------------------------------------
(* Serving NumConns connections concurrently with one handler *)

ConcRequests ==
    {RequestOf(MethodOptions, o, <<MethodPost>>, rh) :
        o \in Present({StrA, StrUpperA}),
        rh \in Present({StrS, StrS \o StrCommaSpace \o StrS})}
    \cup {RequestOf(MethodGet, <<StrA>>, <<>>, <<>>)}

ConcConfigs ==
    {CORSConfigOf(<<StrA>>, <<MethodPost>>, h, cr, 600) :
        h \in {<<StrUpperS>>, <<StrUpperS, StrEmpty>>},
        cr \in BOOLEAN}

InitConc ==
    /\ cfg \in ConcConfigs
    /\ Idle
    /\ inflight = NoConns
    /\ call = NoCall
    /\ MockOpened

CfgAfterMatchLearnsOrigin(c, f) ==
    IF f.origin # StrEmpty /\ ~OriginSupported(c, f.origin)
    THEN [c EXCEPT !.AllowedOrigins = Append(@, f.origin)]
    ELSE c

\* the captured config after the three matchers ran on the fields f: the
\* matchers only read their receiver
CfgAfterMatch(c, f) == c

ConnArrive(i) ==
    /\ inflight[i].pc = "idle"
    /\ \E r \in ConcRequests :
          inflight' = [inflight EXCEPT ![i] = [IdleConn EXCEPT !.pc = "entry", !.req = r]]
    /\ UNCHANGED <<cfg, pc, req, resp, innerCalls, forwarded, innerOut, call, mockVars>>

\* an actual request: the inner handler serves it
ConnForward(i) ==
    /\ inflight[i].pc = "entry"
    /\ inflight[i].req.Method # MethodOptions
    /\ \E out \in InnerResponses :
          inflight' = [inflight EXCEPT ![i].pc = "done",
                                       ![i].w = NextServeHTTP(@, out)]
    /\ UNCHANGED <<cfg, pc, req, resp, innerCalls, forwarded, innerOut, call, mockVars>>

\* a preflight: acquire the fields and match them against the config; a
\* rejected one is answered at once
ConnMatch(i) ==
    /\ inflight[i].pc = "entry"
    /\ inflight[i].req.Method = MethodOptions
    /\ LET f == PreflightFields(inflight[i].req)
       IN /\ inflight' =
                IF ~PreflightAllowed(cfg, f)
                THEN [inflight EXCEPT ![i].pc = "done", ![i].f = f,
                                      ![i].w = WriteHeader(@, StatusBadRequest)]
                ELSE [inflight EXCEPT ![i].pc = "accepted", ![i].f = f]
          /\ cfg' = CfgAfterMatch(cfg, f)
    /\ UNCHANGED <<pc, req, resp, innerCalls, forwarded, innerOut, call, mockVars>>

\* an accepted preflight: set the response headers from the config
ConnSetHeaders(i) ==
    /\ inflight[i].pc = "accepted"
    /\ inflight' = [inflight EXCEPT ![i].pc = "headers",
                                    ![i].w = SetAcceptHeaders(cfg, @, inflight[i].f.origin)]
    /\ UNCHANGED <<cfg, pc, req, resp, innerCalls, forwarded, innerOut, call, mockVars>>

ConnWriteOK(i) ==
    /\ inflight[i].pc = "headers"
    /\ inflight' = [inflight EXCEPT ![i].pc = "done",
                                    ![i].w = WriteHeader(@, StatusOK)]
    /\ UNCHANGED <<cfg, pc, req, resp, innerCalls, forwarded, innerOut, call, mockVars>>

ConnClose(i) ==
    /\ inflight[i].pc = "done"
    /\ inflight' = [inflight EXCEPT ![i] = IdleConn]
    /\ UNCHANGED <<cfg, pc, req, resp, innerCalls, forwarded, innerOut, call, mockVars>>

NextConc ==
    \E i \in Conns :
        \/ ConnArrive(i)
        \/ ConnForward(i)
        \/ ConnMatch(i)
        \/ ConnSetHeaders(i)
        \/ ConnWriteOK(i)
        \/ ConnClose(i)

SpecConc == InitConc /\ [][NextConc]_vars

PreflightAnswered(i) ==
    inflight[i].pc = "done" /\ inflight[i].req.Method = MethodOptions

\* C10: however the requests of concurrent connections interleave, the config
\* is never modified, the answer to a preflight is the one the handler gives
\* that request alone under the config, and two answered preflights with the
\* same request carry the same status and the same headers.
C10_ConfigReadOnlyIdempotent ==
    /\ [][cfg' = cfg]_vars
    /\ [](\A i \in Conns :
            PreflightAnswered(i) =>
                inflight[i].w = ServePreflight(cfg, FreshResponse, inflight[i].req))
    /\ [](\A i, j \in Conns :
            (/\ PreflightAnswered(i)
             /\ PreflightAnswered(j)
             /\ inflight[i].req = inflight[j].req)
                => inflight[i].w = inflight[j].w)

\* the same valid preflight answered 200 on two connections, identically
C10_Witness ==
    \E i, j \in Conns :
        /\ i # j
        /\ PreflightAnswered(i)
        /\ PreflightAnswered(j)
        /\ inflight[i].req = inflight[j].req
        /\ inflight[i].w.status = StatusOK
        /\ inflight[j].w = inflight[i].w

----------------------------------------------------------------------------
(* A MockDB under any sequence of its operations *)

InitMock ==
    /\ cfg = DefaultCfg
    /\ Idle
    /\ inflight = NoConns
    /\ call = NoCall
    /\ MockOpened

Loaded(path, id, r) ==
    /\ last' = [op |-> "load", path |-> path, id |-> id, val |-> r.val, err |-> r.err]
    /\ UNCHANGED <<mock, stored>>

Stored(path, id, v, r) ==
    /\ mock' = r.db
    /\ stored' = [stored EXCEPT ![path][id] = v]
    /\ last' = [op |-> "store", path |-> path, id |-> id, val |-> v, err |-> r.err]

Deleted(path, id, r) ==
    /\ mock' = r.db
    /\ stored' = [stored EXCEPT ![path][id] = Nil]
    /\ last' = [op |-> "delete", path |-> path, id |-> id, val |-> Nil, err |-> r.err]

CallLoadProgram ==
    /\ \E pid \in MockIds : Loaded(programsPath, pid, LoadProgram(mock, pid))
    /\ UNCHANGED <<cfg, pc, req, resp, innerCalls, forwarded, innerOut, inflight, call>>

CallStoreProgram ==
    /\ \E p \in Programs : Stored(programsPath, p.UID, p, StoreProgram(mock, p))
    /\ UNCHANGED <<cfg, pc, req, resp, innerCalls, forwarded, innerOut, inflight, call>>

CallRemoveProgram ==
    /\ \E pid \in MockIds : Deleted(programsPath, pid, RemoveProgram(mock, pid))
    /\ UNCHANGED <<cfg, pc, req, resp, innerCalls, forwarded, innerOut, inflight, call>>

CallLoadClass ==
    /\ \E cid \in MockIds : Loaded(classesPath, cid, LoadClass(mock, cid))
    /\ UNCHANGED <<cfg, pc, req, resp, innerCalls, forwarded, innerOut, inflight, call>>

CallStoreClass ==
    /\ \E c \in Classes : Stored(classesPath, c.CID, c, StoreClass(mock, c))
    /\ UNCHANGED <<cfg, pc, req, resp, innerCalls, forwarded, innerOut, inflight, call>>

CallDeleteClass ==
    /\ \E cid \in MockIds : Deleted(classesPath, cid, DeleteClass(mock, cid))
    /\ UNCHANGED <<cfg, pc, req, resp, innerCalls, forwarded, innerOut, inflight, call>>

CallLoadUser ==
    /\ \E uid \in MockIds : Loaded(usersPath, uid, LoadUser(mock, uid))
    /\ UNCHANGED <<cfg, pc, req, resp, innerCalls, forwarded, innerOut, inflight, call>>

CallStoreUser ==
    /\ \E u \in Users : Stored(usersPath, u.UID, u, StoreUser(mock, u))
    /\ UNCHANGED <<cfg, pc, req, resp, innerCalls, forwarded, innerOut, inflight, call>>

CallDeleteUser ==
    /\ \E uid \in MockIds : Deleted(usersPath, uid, DeleteUser(mock, uid))
    /\ UNCHANGED <<cfg, pc, req, resp, innerCalls, forwarded, innerOut, inflight, call>>

NextMock ==
    \/ CallLoadProgram \/ CallStoreProgram \/ CallRemoveProgram
    \/ CallLoadClass \/ CallStoreClass \/ CallDeleteClass
    \/ CallLoadUser \/ CallStoreUser \/ CallDeleteUser

SpecMock == InitMock /\ [][NextMock]_vars

\* what Load of an id answers in the current state, per collection
LoadOf(path, id) ==
    IF path = programsPath THEN LoadProgram(mock, id)
    ELSE IF path = classesPath THEN LoadClass(mock, id)
    ELSE LoadUser(mock, id)

\* C11: in every state reached by Store, Delete/Remove and Load operations,
\* Load of an id in a collection returns without error the value last stored
\* there under that id if it was not deleted since, and an error otherwise;
\* the Load just made answered so and changed nothing, and no Store or
\* delete returned an error.  (A store or delete in one collection leaves
\* what the other collections answer unchanged, since `stored` changes only
\* at the operation's own collection and id.)
C11_ThreeIndependentMaps ==
    /\ \A path \in Paths, id \in MockIds :
          LET r == LoadOf(path, id)
          IN IF stored[path][id] = Nil
             THEN r.err
             ELSE ~r.err /\ r.val = stored[path][id]
    /\ last.op = "load" =>
          /\ last.err = (stored[last.path][last.id] = Nil)
          /\ ~last.err => last.val = stored[last.path][last.id]
    /\ last.op \in {"store", "delete"} => ~last.err

\* a program loaded with an error after its removal, while the user and the
\* class stored under the same id are still there
C11_Witness ==
    /\ last = [op |-> "load", path |-> programsPath, id |-> "id1",
               val |-> ZeroProgram, err |-> TRUE]
    /\ stored[usersPath]["id1"] # Nil
    /\ stored[classesPath]["id1"] # Nil
    /\ ~LoadUser(mock, "id1").err
    /\ ~LoadClass(mock, "id1").err

====
